---- MODULE Spec2Model ----
(***************************************************************************)
(* Model of the email-agent core:                                          *)
(*   - WebSocketHandler (src/email-agent/ccsdk/websocket-handler.ts): the  *)
(*     broadcast hub, the session registry, the action-generation pipeline *)
(*     and the Action Cache it writes;                                     *)
(*   - ImapManager (src/email-agent/database/imap-manager.ts): the remote  *)
(*     mail client.                                                        *)
(* JavaScript runs handlers to completion between suspension points, so    *)
(* one action is one handler run from one suspension point to the next.    *)
(***************************************************************************)
EXTENDS Integers, Sequences, FiniteSets, TLC

\* ------------------------------------------------------------------ bounds
MaxConns == 2
NumSessIds == 2
MaxTimers == 2
MaxHist == 1
MaxReqs == 2
NumMsgs == 1
MaxUid == 3
MaxCalls == 3
MaxDetailCalls == 2
MaxReads == 1
NumAddrs == 3
MaxAddrs == 2
NumDates == 2
MaxAge == 1
MaxTokens == 3
NumTexts == 2
MaxBlocks == 2
MaxMessages == 3

\* -------------------------------------------------------- program constants
RecentLimit == 30

Conns == 1..MaxConns
SessIds == 1..NumSessIds
ObjIds == 1..NumSessIds
MsgIds == 1..NumMsgs
\* a message identifier that is in no row of the emails table
UnknownMsg == NumMsgs + 1
Reqs == 1..MaxReqs

\* ws.data.sessionId: the random identifier given at connection time (-1,
\* truthy and never a registry key), the empty string set by the unsubscribe
\* handler (0, falsy), or a session identifier.
InitSessionId == -1
EmptySessionId == 0
\* criteria.limit of a call without a limit (undefined)
NoLimit == -1

VARIABLES
  clients,        \* this.clients, in Map insertion order
  broken,         \* connections whose transport throws on send
  wsSession,      \* ws.data.sessionId of each connection
  sessions,       \* this.sessions: session identifier -> Session object (0: absent)
  objs,           \* the Session objects: id, subscribers, history
  cleanupTimers,  \* pending setTimeout closures of cleanupEmptySessions, oldest first
  profileContent, \* this.profileContent
  emails,         \* message identifiers in the emails table
  actionCache,    \* the email_actions table, in insertion (auto-increment) order
  reqs,           \* generate_actions requests: free, pending at the collaborator, done
  trace,          \* what the handler that ran last did, in program order
  imapClient,     \* ImapManager.client (0: null)
  imapConns,      \* every ImapFlow connection created so far
  calls,          \* searchEmails / disconnect invocations and their local state
  profileFile,    \* the content of the watched profile file
  profileTimer,   \* the number of pending debounce timeouts
  profileReads,   \* debounce callbacks suspended at await file.text()
  cleanedUp       \* cleanup() has run

hubVars == <<clients, broken, wsSession, sessions, objs, cleanupTimers,
             profileContent, emails, actionCache, reqs, trace,
             profileFile, profileTimer, profileReads, cleanedUp>>
imapVars == <<imapClient, imapConns, calls>>
profVars == <<profileFile, profileTimer, profileReads, cleanedUp>>
vars == <<clients, broken, wsSession, sessions, objs, cleanupTimers,
          profileContent, emails, actionCache, reqs, trace,
          imapClient, imapConns, calls,
          profileFile, profileTimer, profileReads, cleanedUp>>

\* ----------------------------------------------------------------- helpers
Range(s) == {s[i] : i \in DOMAIN s}

Min(a, b) == IF a < b THEN a ELSE b

RECURSIVE SeqWithout(_, _)
SeqWithout(s, x) ==
  IF s = <<>> THEN <<>>
  ELSE IF Head(s) = x THEN Tail(s)
  ELSE <<Head(s)>> \o SeqWithout(Tail(s), x)

RECURSIVE Flatten(_)
Flatten(ss) == IF ss = <<>> THEN <<>> ELSE Head(ss) \o Flatten(Tail(ss))

\* the elements of a finite set of integers, largest first
RECURSIVE Descending(_)
Descending(S) ==
  IF S = {} THEN <<>>
  ELSE LET m == CHOOSE x \in S : \A y \in S : y <= x
       IN <<m>> \o Descending(S \ {m})

\* ------------------------------------------------------------ JSON values
\* The values JSON.parse can yield, up to what the pipeline looks at:
\* truthiness, and the "actions" member of an object.
JsonNull == "null"
JsonVals == {"null", "false", "obj", "obj_empty", "obj_a1", "obj_a2"}
NotJson == "badjson"
NoFence == "nofence"

Truthy(v) == v \notin {"null", "false"}

\* actionsJson.actions
ActionsOf(v) ==
  CASE v = "obj_empty" -> "empty"
    [] v \in {"obj_a1", "obj_a2"} -> "nonempty"
    [] OTHER -> "undefined"

JsonStringify(v) == <<"json", v>>
JsonParse(t) == t[2]

\* ---------------------------------------------------------------- sending
\* ws.send(...) on connection c: delivered, thrown, or dropped by a closed socket.
SendResult(c) ==
  IF c \in broken THEN "throw"
  ELSE IF c \in Range(clients) THEN "ok"
  ELSE "drop"

SendEv(c, typ, val) ==
  [ev |-> "send", to |-> c, typ |-> typ, val |-> val, res |-> SendResult(c)]

Ev(kind, c, typ, val) ==
  [ev |-> kind, to |-> c, typ |-> typ, val |-> val, res |-> "ok"]

\* a catch that only logs
OnMessageCatchSilent(c) == <<>>

\* try { body } catch { ws.send(error) } of onMessage, for a body that threw
OnMessageCatch(c) ==
  IF SendResult(c) = "throw"
  THEN <<SendEv(c, "error", "Failed to process message"), Ev("escape", c, "rejection", 0)>>
  ELSE <<SendEv(c, "error", "Failed to process message")>>

\* ------------------------------------------------------------ record store
\* mutant: the UPDATE that invalidates prior entries is missing
InvalidateNothing(cache, m) == cache

\* an invalidation that deletes the message's entries
InvalidateByDelete(cache, m) == SelectSeq(cache, LAMBDA e : e.msg # m)

InvalidateActions(cache, m) ==
  [i \in DOMAIN cache |->
     IF cache[i].msg = m THEN [cache[i] EXCEPT !.valid = FALSE] ELSE cache[i]]

InsertActions(cache, m, v) ==
  Append(cache, [msg |-> m, json |-> JsonStringify(v), valid |-> TRUE])

ValidEntries(cache, m) ==
  {i \in DOMAIN cache : cache[i].msg = m /\ cache[i].valid}

\* a join on the message identifier alone, whatever the validity flag
JoinRowsAnyValidity(cache, m) ==
  LET hits == SelectSeq(cache, LAMBDA e : e.msg = m)
  IN IF hits = <<>>
     THEN <<[id |-> m, actions |-> JsonNull]>>
     ELSE [i \in DOMAIN hits |-> [id |-> m, actions |-> JsonParse(hits[i].json)]]

\* the rows of the LEFT JOIN for one email: one per valid cache entry, or one
\* row with a NULL actions_json
JoinRows(cache, m) ==
  LET hits == SelectSeq(cache, LAMBDA e : e.msg = m /\ e.valid)
  IN IF hits = <<>>
     THEN <<[id |-> m, actions |-> JsonNull]>>
     ELSE [i \in DOMAIN hits |-> [id |-> m, actions |-> JsonParse(hits[i].json)]]

GetRecentEmails(stored, cache, readFails) ==
  IF readFails THEN <<>>
  ELSE LET order == Descending(stored)
           rows == Flatten([i \in DOMAIN order |-> JoinRows(cache, order[i])])
       IN SubSeq(rows, 1, Min(RecentLimit, Len(rows)))

\* mutant: a throwing send ends the loop
BroadcastUntilThrow(typ, val) ==
  LET bad == {i \in DOMAIN clients : clients[i] \in broken}
      stop == IF bad = {} THEN Len(clients) ELSE CHOOSE i \in bad : \A j \in bad : i <= j
  IN [i \in 1..stop |-> SendEv(clients[i], typ, val)]

\* a loop that attempts no send on a connection whose transport throws
BroadcastToSound(typ, val) ==
  LET sound == SelectSeq(clients, LAMBDA c : c \notin broken)
  IN [i \in DOMAIN sound |-> SendEv(sound[i], typ, val)]

\* the sends of one broadcast loop over this.clients; a throwing send is caught
BroadcastEvents(typ, val) ==
  [i \in DOMAIN clients |-> SendEv(clients[i], typ, val)]

\* a snapshot read that is sent to nobody
SnapshotWithoutSends(readFails) ==
  <<Ev("snapshot", 0, "read", GetRecentEmails(emails, actionCache, readFails))>>

BroadcastInboxUpdate(readFails) ==
  LET snap == GetRecentEmails(emails, actionCache, readFails)
  IN <<Ev("snapshot", 0, "read", snap)>> \o BroadcastEvents("inbox_update", snap)

\* ---------------------------------------------------------------- sessions
FreeObj == [id |-> 0, subs |-> {}, hist |-> 0]

\* Session.subscribe
SessionSubscribe(os, o, c) == [os EXCEPT ![o].subs = @ \cup {c}]

\* Session.unsubscribe
SessionUnsubscribe(os, o, c) == [os EXCEPT ![o].subs = @ \ {c}]

\* Session.hasSubscribers
HasSubscribers(os, o) == os[o].subs # {}

\* ------------------------------------------------------------ mail client
Calls == 1..MaxCalls
Uids == 1..MaxUid
\* criteria.limit when the caller supplies one
Limits == 0..MaxUid

IdleCall == [pc |-> "idle", kind |-> "none", own |-> 0, cl |-> 0, limit |-> 0, headers |-> FALSE,
             matching |-> {}, uids |-> <<>>, idx |-> 0, results |-> <<>>, bad |-> {}, err |-> "none",
             released |-> 0]

\* ------------------------------------------------------------------- Init
FreeReq == [st |-> "free", ws |-> 0, msg |-> 0]
DoneReq == [st |-> "done", ws |-> 0, msg |-> 0]

Init ==
  /\ clients = <<>>
  /\ broken = {}
  /\ wsSession = [c \in Conns |-> InitSessionId]
  /\ sessions = [s \in SessIds |-> 0]
  /\ objs = [o \in ObjIds |-> FreeObj]
  /\ cleanupTimers = <<>>
  /\ profileContent = ""
  /\ emails = MsgIds
  /\ actionCache = <<>>
  /\ reqs = [r \in Reqs |-> FreeReq]
  /\ trace = BroadcastInboxUpdate(FALSE)
  /\ imapClient = 0
  /\ imapConns = <<>>
  /\ calls = [k \in Calls |-> IdleCall]
  /\ profileFile = ""
  /\ profileTimer = 0
  /\ profileReads = 0
  /\ cleanedUp = FALSE

\* ------------------------------------------------------------ connections
\* nothing in the hub's state still refers to connection c
Unreferenced(c) ==
  /\ c \notin Range(clients)
  /\ \A o \in ObjIds : c \notin objs[o].subs
  /\ \A r \in Reqs : reqs[r].st = "pending" => reqs[r].ws # c

\* Session objects that the registry or a pending timer closure still holds
Collect(os, reg, timers) ==
  [o \in ObjIds |->
     IF (\E s \in SessIds : reg[s] = o) \/ (\E i \in DOMAIN timers : timers[i].obj = o)
     THEN os[o] ELSE FreeObj]

\* wss.on('connection') and onOpen
\* an onOpen that sends the snapshot before the welcome message
OnOpenSnapshotFirst(c, snap) ==
  LET hello == [ev |-> "send", to |-> c, typ |-> "connected",
                val |-> {s \in SessIds : sessions[s] # 0}, res |-> "ok"]
      inbox == [ev |-> "send", to |-> c, typ |-> "inbox_update", val |-> snap, res |-> "ok"]
  IN <<Ev("snapshot", c, "read", snap), inbox, hello>>

\* lines 173-192: what onOpen sends to the connection it has registered
OnOpenEvents(c, snap) ==
  LET hello == [ev |-> "send", to |-> c, typ |-> "connected",
                val |-> {s \in SessIds : sessions[s] # 0}, res |-> "ok"]
      profile == IF profileContent # ""
                 THEN <<[ev |-> "send", to |-> c, typ |-> "profile_update",
                         val |-> profileContent, res |-> "ok"]>>
                 ELSE <<>>
      inbox == [ev |-> "send", to |-> c, typ |-> "inbox_update", val |-> snap, res |-> "ok"]
  IN <<hello>> \o profile \o <<Ev("snapshot", c, "read", snap), inbox>>

OnOpen(c, readFails) ==
  /\ Unreferenced(c)
  /\ \A d \in Conns : Unreferenced(d) => c <= d
  /\ clients' = Append(clients, c)
  /\ wsSession' = [wsSession EXCEPT ![c] = InitSessionId]
  /\ broken' = broken \ {c}
  /\ trace' = OnOpenEvents(c, GetRecentEmails(emails, actionCache, readFails))
  /\ UNCHANGED <<sessions, objs, cleanupTimers, profileContent, emails, actionCache, reqs>>
  /\ UNCHANGED imapVars
  /\ UNCHANGED profVars

\* the transport of an open connection fails: from now on send throws
BreakConn(c) ==
  /\ c \in Range(clients)
  /\ c \notin broken
  /\ broken' = broken \cup {c}
  /\ trace' = <<>>
  /\ UNCHANGED <<clients, wsSession, sessions, objs, cleanupTimers, profileContent,
                 emails, actionCache, reqs>>
  /\ UNCHANGED imapVars
  /\ UNCHANGED profVars

\* the sessions without subscribers, in the order cleanupEmptySessions visits them
EmptySessions(reg, os) ==
  SelectSeq([s \in SessIds |-> s], LAMBDA s : reg[s] # 0 /\ ~HasSubscribers(os, reg[s]))

\* cleanupEmptySessions: one setTimeout closure per session without subscribers
CleanupEmptySessions(reg, os) ==
  LET es == EmptySessions(reg, os)
  IN [i \in DOMAIN es |-> [id |-> es[i], obj |-> reg[es[i]], resub |-> FALSE, last |-> FALSE]]

\* the timers one onClose starts; "last" marks the session the closing
\* connection was the only subscriber of
StartedBy(reg, os0, os1) ==
  LET ts == CleanupEmptySessions(reg, os1)
  IN [i \in DOMAIN ts |-> [ts[i] EXCEPT !.last = HasSubscribers(os0, ts[i].obj)]]

\* onClose
OnClose(c) ==
  LET sid == wsSession[c]
      o == IF sid \in SessIds THEN sessions[sid] ELSE 0
      os1 == IF o # 0 THEN SessionUnsubscribe(objs, o, c) ELSE objs
      started == StartedBy(sessions, objs, os1)
  IN /\ c \in Range(clients)
     /\ Len(cleanupTimers) + Len(started) <= MaxTimers
     /\ objs' = os1
     /\ clients' = SeqWithout(clients, c)
     /\ cleanupTimers' = cleanupTimers \o started
     /\ wsSession' = [wsSession EXCEPT ![c] = InitSessionId]
     /\ trace' = <<Ev("close", c, "started", Len(started))>>
     /\ UNCHANGED <<broken, sessions, profileContent, emails, actionCache, reqs>>
  /\ UNCHANGED imapVars
  /\ UNCHANGED profVars

\* the setTimeout callback of cleanupEmptySessions; equal delays fire oldest first
TimerFire ==
  /\ cleanupTimers # <<>>
  /\ LET t == Head(cleanupTimers)
         empty == ~HasSubscribers(objs, t.obj)
         reg1 == IF empty THEN [sessions EXCEPT ![t.id] = 0] ELSE sessions
         os1 == IF empty THEN [objs EXCEPT ![t.obj].subs = {}] ELSE objs
     IN /\ sessions' = reg1
        /\ cleanupTimers' = Tail(cleanupTimers)
        /\ objs' = Collect(os1, reg1, Tail(cleanupTimers))
        /\ trace' = <<Ev("timer", 0, "cleanup",
                         [id |-> t.id, obj |-> t.obj, resub |-> t.resub, last |-> t.last,
                          hadSubs |-> ~empty, before |-> sessions[t.id],
                          subsBefore |-> IF sessions[t.id] # 0
                                         THEN objs[sessions[t.id]].subs ELSE {},
                          after |-> reg1[t.id]])>>
  /\ UNCHANGED <<clients, broken, wsSession, profileContent, emails, actionCache, reqs>>
  /\ UNCHANGED imapVars
  /\ UNCHANGED profVars

\* --------------------------------------------------------- session messages
\* a subscription to object o: pending timers on o have seen a re-subscription
MarkResub(timers, o) ==
  [i \in DOMAIN timers |->
     IF timers[i].obj = o THEN [timers[i] EXCEPT !.resub = TRUE] ELSE timers[i]]

\* identifiers generateSessionId may return: used by nothing in the present state
FreshIds ==
  {s \in SessIds : /\ sessions[s] = 0
                   /\ \A i \in DOMAIN cleanupTimers : cleanupTimers[i].id # s
                   /\ \A c \in Conns : wsSession[c] # s}

FreeObjs == {o \in ObjIds : objs[o] = FreeObj /\ \A s \in SessIds : sessions[s] # o}

\* onMessage, case 'chat'; sid = 0 stands for a message without sessionId
Chat(c, sid, newConversation) ==
  /\ c \in Range(clients)
  /\ \E id \in SessIds, o \in ObjIds :
       /\ IF sid # 0 /\ sessions[sid] # 0
          THEN id = sid /\ o = sessions[sid]
          ELSE /\ (IF sid # 0 THEN id = sid ELSE id \in FreshIds)
               /\ FreeObjs # {}
               /\ o = CHOOSE x \in FreeObjs : \A y \in FreeObjs : x <= y
       /\ LET created == ~(sid # 0 /\ sessions[sid] # 0)
              os0 == IF created THEN [objs EXCEPT ![o] = [id |-> id, subs |-> {}, hist |-> 0]]
                     ELSE objs
              auto == wsSession[c] = EmptySessionId \/ wsSession[c] # id
              os1 == IF auto THEN SessionSubscribe(os0, o, c) ELSE os0
              h0 == IF newConversation THEN 0 ELSE os1[o].hist
          IN /\ h0 < MaxHist
             /\ sessions' = [sessions EXCEPT ![id] = o]
             /\ objs' = [os1 EXCEPT ![o].hist = h0 + 1]
             /\ wsSession' = IF auto THEN [wsSession EXCEPT ![c] = id] ELSE wsSession
             /\ cleanupTimers' = IF auto THEN MarkResub(cleanupTimers, o) ELSE cleanupTimers
             /\ trace' = <<Ev("chat", c, IF created THEN "created" ELSE "existing", id)>>
  /\ UNCHANGED <<clients, broken, profileContent, emails, actionCache, reqs>>
  /\ UNCHANGED imapVars
  /\ UNCHANGED profVars

\* a reply of onMessage followed, when the send throws, by the catch of onMessage
Reply(c, typ, val) ==
  IF SendResult(c) = "throw"
  THEN <<SendEv(c, typ, val)>> \o OnMessageCatch(c)
  ELSE <<SendEv(c, typ, val)>>

\* onMessage, case 'subscribe'
Subscribe(c, sid) ==
  /\ c \in Range(clients)
  /\ IF sessions[sid] # 0
     THEN LET o == sessions[sid]
              cur == wsSession[c]
              curObj == IF cur \in SessIds THEN sessions[cur] ELSE 0
              os1 == IF cur # EmptySessionId /\ cur # sid /\ curObj # 0
                     THEN SessionUnsubscribe(objs, curObj, c) ELSE objs
          IN /\ objs' = SessionSubscribe(os1, o, c)
             /\ wsSession' = [wsSession EXCEPT ![c] = sid]
             /\ cleanupTimers' = MarkResub(cleanupTimers, o)
             /\ trace' = <<Ev("subscribe", c, "found", sid)>> \o Reply(c, "subscribed", sid)
     ELSE /\ trace' = <<Ev("subscribe", c, "unknown", sid)>> \o Reply(c, "error", "Session not found")
          /\ UNCHANGED <<objs, wsSession, cleanupTimers>>
  /\ UNCHANGED <<clients, broken, sessions, profileContent, emails, actionCache, reqs>>
  /\ UNCHANGED imapVars
  /\ UNCHANGED profVars

\* onMessage, case 'unsubscribe'
Unsubscribe(c, sid) ==
  /\ c \in Range(clients)
  /\ IF sessions[sid] # 0
     THEN /\ objs' = SessionUnsubscribe(objs, sessions[sid], c)
          /\ wsSession' = [wsSession EXCEPT ![c] = EmptySessionId]
          /\ trace' = <<Ev("unsubscribe", c, "found", sid)>> \o Reply(c, "unsubscribed", sid)
     ELSE /\ trace' = <<Ev("unsubscribe", c, "unknown", sid)>>
          /\ UNCHANGED <<objs, wsSession>>
  /\ UNCHANGED <<clients, broken, sessions, cleanupTimers, profileContent, emails,
                 actionCache, reqs>>
  /\ UNCHANGED imapVars
  /\ UNCHANGED profVars

\* the inbound messages onMessage has no case for: text that is not JSON,
\* JSON null (data.type throws), JSON whose type is none of the known kinds
BadMessages == {"notjson", "null", "unknown"}

\* onMessage for such a message: JSON.parse or data.type throws into the
\* catch (lines 197-199, 279-285), or the default case replies (lines 273-277)
BadMessage(c, kind) ==
  /\ c \in Range(clients)
  /\ trace' = <<Ev("message", c, kind, 0)>> \o
                 (IF kind = "unknown" THEN Reply(c, "error", "Unknown message type")
                  ELSE OnMessageCatch(c))
  /\ UNCHANGED <<clients, broken, wsSession, sessions, objs, cleanupTimers,
                 profileContent, emails, actionCache, reqs>>
  /\ UNCHANGED imapVars
  /\ UNCHANGED profVars

\* ------------------------------------------------------- action generation
\* A collaborator reply, by what the two extractors see in it: the parse of
\* the first fenced json block (or no such block), and the parse of the whole
\* trimmed text. A fence inside a JSON string makes both present.
ReplyTexts ==
  {[fence |-> NoFence, whole |-> w] : w \in {NotJson, "obj", "obj_empty", "obj_a1"}}
    \cup {[fence |-> f, whole |-> NotJson] : f \in {NotJson, "false", "obj_a2"}}
    \cup {[fence |-> f, whole |-> "obj_a1"] : f \in {NotJson, "false", "obj_a2"}}

\* the outcome of a collaborator call that rejects
Rejected == [fence |-> "rejected", whole |-> "rejected"]

\* lines 431-440: the fenced block, when it matches and parses
ParseFenced(t) == IF t.fence \in JsonVals THEN t.fence ELSE JsonNull

\* an extractor that parses the whole message whatever the first step left
ParseWholeAlways(t, a) == IF t.whole \in JsonVals THEN t.whole ELSE a

\* lines 443-451: the whole message, when the first step left a falsy value
ParseWhole(t, a) ==
  IF ~Truthy(a) THEN (IF t.whole \in JsonVals THEN t.whole ELSE a) ELSE a

ExtractJson(t) == ParseWhole(t, ParseFenced(t))

\* mutant: the store step is not guarded
ShouldStoreAlways(v) == TRUE

\* mutant: the guard also asks for a non-empty list
ShouldStoreNonEmpty(v) == Truthy(v) /\ ActionsOf(v) = "nonempty"

\* line 458: if (actionsJson && actionsJson.actions)
ShouldStore(v) == Truthy(v) /\ ActionsOf(v) # "undefined"

\* a store step that inserts first and invalidates afterwards
StoreInsertFirst(cache, m, v, dbFault) ==
  CASE dbFault = "update" -> InsertActions(cache, m, v)
    [] dbFault = "insert" -> cache
    [] OTHER -> InvalidateActions(InsertActions(cache, m, v), m)

\* lines 459-479: UPDATE then INSERT inside one try; either statement may throw
StoreActions(cache, m, v, dbFault) ==
  CASE dbFault = "update" -> cache
    [] dbFault = "insert" -> InvalidateActions(cache, m)
    [] OTHER -> InsertActions(InvalidateActions(cache, m), m, v)

\* mutant: the catch only logs
GenerateCatchSilent(c, reason) == <<>>

\* catch of handleGenerateActions: the actions_error reply; when that send
\* throws too, the error reaches the catch of onMessage
GenerateCatch(c, reason) ==
  IF SendResult(c) = "throw"
  THEN <<SendEv(c, "actions_error", reason)>> \o OnMessageCatch(c)
  ELSE <<SendEv(c, "actions_error", reason)>>

\* a hub that takes no generate_actions request while one is pending
FreeReqsWhenIdle ==
  IF \E r \in Reqs : reqs[r].st = "pending" THEN {} ELSE {r \in Reqs : reqs[r].st = "free"}

FreeReqs == {r \in Reqs : reqs[r].st = "free"}

\* a lookup that takes every message identifier as resolvable
ResolvedAlways(m, hasContent) == TRUE

\* lines 324-366: the content came with the request or the emails table has the row
Resolved(m, hasContent) == hasContent \/ m \in emails

\* lines 313-404, what the handler does before the await of querySingle
GenStartEvents(c, r, m, hasContent) ==
  LET ack == SendEv(c, "actions_generating", m)
      resolved == Resolved(m, hasContent)
      lookup == IF hasContent THEN <<>> ELSE <<Ev("dbread", c, "emails", m)>>
  IN IF SendResult(c) = "throw"
     THEN <<Ev("generate", c, "start", r), ack>>
            \o GenerateCatch(c, "Failed to generate actions")
     ELSE IF ~resolved
     THEN <<Ev("generate", c, "start", r), ack>> \o lookup
            \o <<SendEv(c, "actions_error", "Email not found")>>
     ELSE <<Ev("generate", c, "start", r), ack>> \o lookup
            \o <<Ev("invoke", c, "querySingle", m)>>

\* handleGenerateActions up to the await of aiClient.querySingle (lines 309-404)
GenStart(c, m, hasContent) ==
  /\ c \in Range(clients)
  /\ FreeReqs # {}
  /\ LET r == CHOOSE x \in FreeReqs : \A y \in FreeReqs : x <= y
         tr == GenStartEvents(c, r, m, hasContent)
         goes == \E i \in DOMAIN tr : tr[i].ev = "invoke"
     IN /\ trace' = tr
        /\ reqs' = [reqs EXCEPT ![r] =
                      IF goes THEN [st |-> "pending", ws |-> c, msg |-> m] ELSE DoneReq]
  /\ UNCHANGED <<clients, broken, wsSession, sessions, objs, cleanupTimers,
                 profileContent, emails, actionCache>>
  /\ UNCHANGED imapVars
  /\ UNCHANGED profVars

\* a store step whose failure reaches the catch of handleGenerateActions
StoreCatchRethrows(c, dbFault, rest) ==
  IF dbFault # "none" THEN GenerateCatch(c, "Failed to generate actions") ELSE rest

\* lines 476-479: the catch of the store step only logs, the handler goes on
StoreCatch(c, dbFault, rest) == rest

\* lines 404-516, what the handler does once querySingle has settled; cache1
\* is the Action Cache after the store step
GenResumeEvents(c, r, m, outcome, dbFault, cache1, readFails) ==
  LET v == ExtractJson(outcome)
      reply == SendEv(c, "actions_generated", [actions |-> v, raw |-> outcome])
      snap == GetRecentEmails(emails, cache1, readFails)
      bcast == <<Ev("snapshot", 0, "read", snap)>> \o BroadcastEvents("inbox_update", snap)
      write == IF ShouldStore(v) THEN <<Ev("dbwrite", c, dbFault, m)>> ELSE <<>>
  IN IF outcome = Rejected
     THEN <<Ev("resume", c, "rejected", r)>>
            \o GenerateCatch(c, "Failed to generate actions")
     ELSE IF SendResult(c) = "throw"
     THEN <<Ev("resume", c, "returned", r)>> \o write
            \o StoreCatch(c, dbFault,
                  <<reply>> \o GenerateCatch(c, "Failed to generate actions"))
     ELSE <<Ev("resume", c, "returned", r)>> \o write
            \o StoreCatch(c, dbFault, <<reply>> \o bcast)

\* handleGenerateActions from the return of aiClient.querySingle (lines 404-516);
\* outcome is Rejected when the collaborator call rejects, else the reply text
GenResume(r, outcome, dbFault, readFails) ==
  /\ reqs[r].st = "pending"
  /\ LET c == reqs[r].ws
         m == reqs[r].msg
         store == outcome # Rejected /\ ShouldStore(ExtractJson(outcome))
         cache1 == IF store
                   THEN StoreActions(actionCache, m, ExtractJson(outcome), dbFault)
                   ELSE actionCache
         broadcasts == outcome # Rejected /\ SendResult(c) # "throw"
     IN /\ (~store => dbFault = "none")
        /\ (~broadcasts => ~readFails)
        /\ actionCache' = cache1
        /\ trace' = GenResumeEvents(c, r, m, outcome, dbFault, cache1, readFails)
        /\ reqs' = [reqs EXCEPT ![r] = DoneReq]
  /\ UNCHANGED <<clients, broken, wsSession, sessions, objs, cleanupTimers,
                 profileContent, emails>>
  /\ UNCHANGED imapVars
  /\ UNCHANGED profVars

\* onMessage, case 'request_inbox'
RequestInbox(c, readFails) ==
  /\ c \in Range(clients)
  /\ LET snap == GetRecentEmails(emails, actionCache, readFails)
     IN trace' = <<Ev("snapshot", c, "read", snap)>> \o Reply(c, "inbox_update", snap)
  /\ UNCHANGED <<clients, broken, wsSession, sessions, objs, cleanupTimers,
                 profileContent, emails, actionCache, reqs>>
  /\ UNCHANGED imapVars
  /\ UNCHANGED profVars

\* the setInterval callback of initEmailWatcher
PollTick(readFails) ==
  /\ trace' = BroadcastInboxUpdate(readFails)
  /\ UNCHANGED <<clients, broken, wsSession, sessions, objs, cleanupTimers,
                 profileContent, emails, actionCache, reqs>>
  /\ UNCHANGED imapVars
  /\ UNCHANGED profVars

\* --------------------------------------------------------- profile watcher
\* the contents the profile file can have; "" is the missing or empty file
Profiles == {"", "profile A", "profile B"}

\* broadcastProfileUpdate
BroadcastProfileUpdate(content) ==
  <<Ev("profile", 0, "changed", content)>> \o BroadcastEvents("profile_update", content)

\* a setTimeout that clears nothing
StackTimer(pending) == pending + 1

\* lines 42-46, 58: clearTimeout of this.profileUpdateTimeout, the timeout set
\* last, then setTimeout
ResetTimer(pending) == (IF pending > 0 THEN pending - 1 ELSE 0) + 1

\* the file is written and the watcher callback runs with 'change' (lines
\* 39-58): a pending timeout is cleared and a new one is set
FileChange(content) ==
  /\ ~cleanedUp
  /\ profileFile' = content
  /\ profileTimer' = ResetTimer(profileTimer)
  /\ trace' = <<Ev("change", 0, IF profileTimer > 0 THEN "reset" ELSE "set", content)>>
  /\ UNCHANGED <<clients, broken, wsSession, sessions, objs, cleanupTimers,
                 profileContent, emails, actionCache, reqs, profileReads, cleanedUp>>
  /\ UNCHANGED imapVars

\* the debounce timeout fires: the callback runs up to await file.text() (lines 46-49)
ProfileTimerFire ==
  /\ profileTimer > 0
  /\ profileReads < MaxReads
  /\ profileTimer' = profileTimer - 1
  /\ profileReads' = profileReads + 1
  /\ trace' = <<>>
  /\ UNCHANGED <<clients, broken, wsSession, sessions, objs, cleanupTimers,
                 profileContent, emails, actionCache, reqs, profileFile, cleanedUp>>
  /\ UNCHANGED imapVars

\* a comparison that finds every re-read content new
ProfileAlwaysDiffers(newContent, cached) == TRUE

\* line 51: newContent !== this.profileContent
ProfileDiffers(newContent, cached) == newContent # cached

\* the callback after await file.text() (lines 49-57)
ProfileRead(ok) ==
  /\ profileReads > 0
  /\ profileReads' = profileReads - 1
  /\ IF ok /\ ProfileDiffers(profileFile, profileContent)
     THEN /\ profileContent' = profileFile
          /\ trace' = BroadcastProfileUpdate(profileFile)
     ELSE /\ trace' = <<Ev("reread", 0, IF ok THEN "same" ELSE "failed", profileFile)>>
          /\ UNCHANGED profileContent
  /\ UNCHANGED <<clients, broken, wsSession, sessions, objs, cleanupTimers,
                 emails, actionCache, reqs, profileFile, profileTimer, cleanedUp>>
  /\ UNCHANGED imapVars

\* Session.cleanup() on every registered session: its resources are released
CleanupSessions(os, reg) ==
  [o \in ObjIds |->
     IF \E s \in SessIds : reg[s] = o THEN [os[o] EXCEPT !.subs = {}] ELSE os[o]]

\* cleanup() (lines 542-556): the watcher is closed, the pending debounce
\* timeout is cleared, every session is cleaned up; the interval of
\* initEmailWatcher and the timeouts of cleanupEmptySessions have no handle
Cleanup ==
  /\ ~cleanedUp
  /\ cleanedUp' = TRUE
  /\ profileTimer' = 0
  /\ objs' = CleanupSessions(objs, sessions)
  /\ trace' = <<Ev("cleanup", 0, "done", 0)>>
  /\ UNCHANGED <<clients, broken, wsSession, sessions, cleanupTimers, profileContent,
                 emails, actionCache, reqs, profileFile, profileReads>>
  /\ UNCHANGED imapVars

\* ------------------------------------------------------------- ImapManager
\* line 71: this.client = new ImapFlow(this.config)
NewConn(conns) == Append(conns, [st |-> "connecting", lock |-> 0])

\* line 78: the awaited connect() of connection n has settled
Connected(conns, n, ok) ==
  IF conns[n].st = "connecting"
  THEN [conns EXCEPT ![n].st = IF ok THEN "open" ELSE "closed"]
  ELSE conns

\* logout() has been called on connection n
LoggedOut(conns, n) == [conns EXCEPT ![n].st = "closed"]

\* a release that leaves the lock where it is
ReleaseNothing(conns, n, k) == conns

\* lock.release() by call k on its connection
ReleaseLock(conns, n, k) ==
  IF conns[n].lock = k THEN [conns EXCEPT ![n].lock = 0] ELSE conns

\* the elements of a finite set of integers, smallest first
RECURSIVE Ascending(_)
Ascending(S) ==
  IF S = {} THEN <<>>
  ELSE LET m == CHOOSE x \in S : \A y \in S : x <= y
       IN <<m>> \o Ascending(S \ {m})

\* a sort by (a, b) => a - b
SortAscending(S) == Ascending(S)

\* line 118: matchingUids.sort((a, b) => b - a)
SortDescending(S) == Descending(S)

\* lines 119-121: criteria.limit ? sortedUids.slice(0, criteria.limit) : sortedUids
ApplyLimit(sorted, limit) ==
  IF limit # 0 /\ limit # NoLimit THEN SubSeq(sorted, 1, Min(limit, Len(sorted))) ELSE sorted

\* every earlier slot has been used: calls are numbered in the order they start
NextCall(k) == calls[k].pc = "idle" /\ \A j \in Calls : j < k => calls[j].pc # "idle"

\* searchEmails enters getClient (lines 95, 62-71): with a connection at hand
\* it awaits its logout, without one it creates a connection and awaits connect
SearchStart(k, limit, headersOnly) ==
  /\ NextCall(k)
  /\ IF imapClient # 0
     THEN /\ imapConns' = LoggedOut(imapConns, imapClient)
          /\ calls' = [calls EXCEPT ![k] = [IdleCall EXCEPT !.pc = "logout", !.kind = "search",
                                             !.limit = limit, !.headers = headersOnly]]
          /\ UNCHANGED imapClient
     ELSE /\ imapConns' = NewConn(imapConns)
          /\ imapClient' = Len(imapConns) + 1
          /\ calls' = [calls EXCEPT ![k] = [IdleCall EXCEPT !.pc = "connect", !.kind = "search",
                                             !.own = Len(imapConns) + 1,
                                             !.limit = limit, !.headers = headersOnly]]
  /\ UNCHANGED hubVars

\* getClient after the awaited logout (lines 67-78)
SearchAfterLogout(k) ==
  /\ calls[k].pc = "logout"
  /\ calls[k].kind = "search"
  /\ imapConns' = NewConn(imapConns)
  /\ imapClient' = Len(imapConns) + 1
  /\ calls' = [calls EXCEPT ![k].pc = "connect", ![k].own = Len(imapConns) + 1]
  /\ UNCHANGED hubVars

\* getClient after the awaited connect (lines 78-81), then searchEmails up to
\* the await of getMailboxLock (lines 95-105); getClient returns this.client
\* as it is now
SearchConnected(k, ok) ==
  /\ calls[k].pc = "connect"
  /\ IF ~ok
     THEN calls' = [calls EXCEPT ![k].pc = "failed", ![k].err = "connect"]
     ELSE IF imapClient = 0
     THEN calls' = [calls EXCEPT ![k].pc = "failed", ![k].err = "null"]
     ELSE calls' = [calls EXCEPT ![k].pc = "lock", ![k].cl = imapClient]
  /\ imapConns' = Connected(imapConns, calls[k].own, ok)
  /\ UNCHANGED imapClient
  /\ UNCHANGED hubVars

\* after the await of getMailboxLock (lines 105-114); the lock is granted when
\* no other call holds it on this connection
SearchLocked(k, ok) ==
  /\ calls[k].pc = "lock"
  /\ LET n == calls[k].cl
     IN IF ok
        THEN /\ imapConns[n].st = "open"
             /\ imapConns[n].lock = 0
             /\ imapConns' = [imapConns EXCEPT ![n].lock = k]
             /\ calls' = [calls EXCEPT ![k].pc = "search"]
        ELSE /\ calls' = [calls EXCEPT ![k].pc = "failed", ![k].err = "lock"]
             /\ UNCHANGED imapConns
  /\ UNCHANGED imapClient
  /\ UNCHANGED hubVars

\* leaving the inner try: finally { lock.release() } (lines 222-224)
Leave(k, pc, err) ==
  /\ imapConns' = ReleaseLock(imapConns, calls[k].cl, k)
  /\ calls' = [calls EXCEPT ![k].pc = pc, ![k].err = err, ![k].released = @ + 1]

\* after the await of client.search (lines 114-139)
SearchSearched(k, ok, matching) ==
  /\ calls[k].pc = "search"
  /\ IF ~ok
     THEN /\ matching = {}
          /\ Leave(k, "failed", "search")
     ELSE LET uidsToFetch == ApplyLimit(SortDescending(matching), calls[k].limit)
          IN /\ imapConns[calls[k].cl].st = "open"
             /\ IF uidsToFetch = <<>>
                THEN Leave(k, "done", "none")
                ELSE /\ calls' = [calls EXCEPT ![k].pc = "fetch", ![k].matching = matching,
                                               ![k].uids = uidsToFetch, ![k].idx = 1]
                     /\ UNCHANGED imapConns
  /\ UNCHANGED imapClient
  /\ UNCHANGED hubVars

\* the end of one loop iteration: the next fetchOne, or the way out (lines 126, 222-230)
Advance(k, results, bad) ==
  IF calls[k].idx < Len(calls[k].uids)
  THEN /\ calls' = [calls EXCEPT ![k].pc = "fetch", ![k].idx = @ + 1,
                                 ![k].results = results, ![k].bad = bad]
       /\ UNCHANGED imapConns
  ELSE /\ imapConns' = ReleaseLock(imapConns, calls[k].cl, k)
       /\ calls' = [calls EXCEPT ![k].pc = "done", ![k].results = results, ![k].bad = bad,
                                 ![k].released = @ + 1]

\* after the await of client.fetchOne (lines 139-178): the await is outside
\* the try of lines 143-220, so a rejected fetch leaves the loop
SearchFetched(k, outcome) ==
  /\ calls[k].pc = "fetch"
  /\ LET uid == calls[k].uids[calls[k].idx]
     IN CASE outcome = "throw" ->
               /\ imapConns' = ReleaseLock(imapConns, calls[k].cl, k)
               /\ calls' = [calls EXCEPT ![k].pc = "failed", ![k].err = "fetch",
                                         ![k].bad = @ \cup {uid}, ![k].released = @ + 1]
          [] outcome = "nosource" ->
               /\ imapConns[calls[k].cl].st = "open"
               /\ Advance(k, Append(calls[k].results, uid), calls[k].bad)
          [] outcome = "source" ->
               /\ imapConns[calls[k].cl].st = "open"
               /\ ~calls[k].headers
               /\ calls' = [calls EXCEPT ![k].pc = "parse"]
               /\ UNCHANGED imapConns
  /\ UNCHANGED imapClient
  /\ UNCHANGED hubVars

\* after the await of simpleParser (lines 162-220); a parse error is caught
SearchParsed(k, ok) ==
  /\ calls[k].pc = "parse"
  /\ LET uid == calls[k].uids[calls[k].idx]
     IN IF ok
        THEN Advance(k, Append(calls[k].results, uid), calls[k].bad)
        ELSE Advance(k, calls[k].results, calls[k].bad \cup {uid})
  /\ UNCHANGED imapClient
  /\ UNCHANGED hubVars

\* disconnect up to the await of logout (lines 84-86)
DisconnectStart(k) ==
  /\ NextCall(k)
  /\ IF imapClient # 0
     THEN /\ imapConns' = LoggedOut(imapConns, imapClient)
          /\ calls' = [calls EXCEPT ![k] = [IdleCall EXCEPT !.pc = "logout", !.kind = "disconnect"]]
     ELSE /\ calls' = [calls EXCEPT ![k] = [IdleCall EXCEPT !.pc = "done", !.kind = "disconnect"]]
          /\ UNCHANGED imapConns
  /\ UNCHANGED imapClient
  /\ UNCHANGED hubVars

\* disconnect after the await of logout (line 87)
DisconnectDone(k, ok) ==
  /\ calls[k].pc = "logout"
  /\ calls[k].kind = "disconnect"
  /\ IF ok
     THEN /\ imapClient' = 0
          /\ calls' = [calls EXCEPT ![k].pc = "done"]
     ELSE /\ calls' = [calls EXCEPT ![k].pc = "failed", ![k].err = "logout"]
          /\ UNCHANGED imapClient
  /\ UNCHANGED imapConns
  /\ UNCHANGED hubVars

\* the steps of the calls K, with limits L and matching identifiers among U
ImapSteps(K, L, U) ==
  \/ \E k \in K, l \in L, h \in BOOLEAN : SearchStart(k, l, h)
  \/ \E k \in K : SearchAfterLogout(k)
  \/ \E k \in K, ok \in BOOLEAN : SearchConnected(k, ok)
  \/ \E k \in K, ok \in BOOLEAN : SearchLocked(k, ok)
  \/ \E k \in K, ok \in BOOLEAN, S \in SUBSET U : SearchSearched(k, ok, S)
  \/ \E k \in K, o \in {"throw", "nosource", "source"} : SearchFetched(k, o)
  \/ \E k \in K, ok \in BOOLEAN : SearchParsed(k, ok)
  \/ \E k \in K : DisconnectStart(k)
  \/ \E k \in K, ok \in BOOLEAN : DisconnectDone(k, ok)

\* two calls over a mailbox of MaxUid messages
ImapNext == ImapSteps(1..MaxDetailCalls, Limits, Uids)

\* MaxCalls calls over a mailbox of one message
OverlapNext == ImapSteps(Calls, {0}, {1})

\* ------------------------------------------------------ search query building
Addrs == 1..NumAddrs
Dates == 1..NumDates

\* criteria.from / criteria.to: a string (vals of length one; the empty string
\* is falsy and has no vals) or an array of strings
NoAddr == [arr |-> FALSE, vals |-> <<>>]
AddrLists == UNION {[1..n -> Addrs] : n \in 1..MaxAddrs}
AddrCriteria ==
  {NoAddr} \cup {[arr |-> FALSE, vals |-> <<a>>] : a \in Addrs}
           \cup {[arr |-> TRUE, vals |-> s] : s \in AddrLists}

\* a value of criteria.from / criteria.to that is truthy
Present(c) == c.arr \/ c.vals # <<>>

\* the words of a raw query, by what the regular expressions of
\* parseGmailQuery see in them: a from:/to: word with its address, a subject:
\* word (its text in quotes or bare), a newer_than:/after: word with its number
\* and unit letter (h: a letter outside [dmy]), and any other word
Units == {"d", "m", "y", "h"}
Tokens ==
  {[k |-> k, a |-> a, u |-> "-"] : k \in {"from", "to"}, a \in Addrs}
    \cup {[k |-> "subject", a |-> 1, u |-> u] : u \in {"quoted", "bare"}}
    \cup {[k |-> k, a |-> n, u |-> u] : k \in {"newer_than", "after"}, n \in 1..MaxAge, u \in Units}
    \cup {[k |-> "word", a |-> 1, u |-> "-"]}
RawQueries == UNION {[1..n -> Tokens] : n \in 1..MaxTokens}

\* SearchCriteria without its limit; subject 0, start 0, end 0: absent;
\* gmailQuery <<>>: absent or the empty string
PlainCriteria ==
  [from : AddrCriteria, to : AddrCriteria, subject : {0, 1},
   start : {0} \cup Dates, end : {0} \cup Dates, isUnread : BOOLEAN, gmailQuery : {<<>>}]
NoCriteria ==
  [from |-> NoAddr, to |-> NoAddr, subject |-> 0, start |-> 0, end |-> 0,
   isUnread |-> FALSE, gmailQuery |-> <<>>]
FullCriteria ==
  [from |-> [arr |-> FALSE, vals |-> <<1>>], to |-> [arr |-> TRUE, vals |-> <<1>>],
   subject |-> 1, start |-> 1, end |-> 1, isUnread |-> TRUE, gmailQuery |-> <<>>]

\* the search object; from 0, to 0, subject 0 or <<>>, since/before 0: key not set
EmptyQuery ==
  [from |-> 0, to |-> 0, hasOr |-> FALSE, or |-> <<>>, subject |-> 0,
   since |-> 0, before |-> 0, unseen |-> FALSE, all |-> FALSE]

\* lines 280-283 and 321-323: Object.keys(query).length === 0
NoKeys(q) == q = EmptyQuery

OrAll(q) == IF NoKeys(q) THEN [q EXCEPT !.all = TRUE] ELSE q

OrTerms(field, vals) == [i \in DOMAIN vals |-> [field |-> field, addr |-> vals[i]]]

\* lines 239-285: the standard search object
BuildStandardQuery(cr) ==
  LET q1 == IF Present(cr.from)
            THEN IF Len(cr.from.vals) = 1
                 THEN [EmptyQuery EXCEPT !.from = cr.from.vals[1]]
                 ELSE [EmptyQuery EXCEPT !.hasOr = TRUE, !.or = OrTerms("from", cr.from.vals)]
            ELSE EmptyQuery
      q2 == IF Present(cr.to)
            THEN IF Len(cr.to.vals) = 1
                 THEN [q1 EXCEPT !.to = cr.to.vals[1]]
                 ELSE [q1 EXCEPT !.hasOr = TRUE, !.or = q1.or \o OrTerms("to", cr.to.vals)]
            ELSE q1
      q3 == [q2 EXCEPT !.subject = cr.subject, !.since = cr.start, !.before = cr.end,
                       !.unseen = cr.isUnread]
  IN OrAll(q3)

\* the index of the first word of kind k that the expression for k matches
FirstToken(raw, kinds, units) ==
  LET hits == {i \in DOMAIN raw : raw[i].k \in kinds /\ raw[i].u \in units}
  IN IF hits = {} THEN 0 ELSE CHOOSE i \in hits : \A j \in hits : i <= j

\* line 303, /subject:["']?([^"']+)["']?/i: the capture runs to the next quote
\* or to the end of the query, white space included
SubjectCapture(raw, i) ==
  IF raw[i].u = "quoted" THEN <<raw[i]>> ELSE SubSeq(raw, i, Len(raw))

\* lines 287-326: parseGmailQuery; subject is the captured words (<<>>: not
\* set), since is <<number, unit>> before now (<<>>: not set)
ParseGmailQuery(raw) ==
  LET f == FirstToken(raw, {"from"}, {"-"})
      t == FirstToken(raw, {"to"}, {"-"})
      s == FirstToken(raw, {"subject"}, {"quoted", "bare"})
      n == FirstToken(raw, {"newer_than", "after"}, {"d", "m", "y"})
      q == [EmptyQuery EXCEPT
              !.from = IF f = 0 THEN 0 ELSE raw[f].a,
              !.to = IF t = 0 THEN 0 ELSE raw[t].a,
              !.subject = IF s = 0 THEN <<>> ELSE SubjectCapture(raw, s),
              !.since = IF n = 0 THEN <<>> ELSE <<raw[n].a, raw[n].u>>]
  IN IF f = 0 /\ t = 0 /\ s = 0 /\ n = 0 THEN [q EXCEPT !.all = TRUE] ELSE q

\* lines 233-237: a raw query, when there is one, is all that is looked at
BuildSearchQuery(cr) ==
  IF cr.gmailQuery # <<>> THEN ParseGmailQuery(cr.gmailQuery) ELSE BuildStandardQuery(cr)

\* the criteria a search is called with: every combination without a raw
\* query, and every raw query beside no other criterion and beside all of them
QueryInputs ==
  PlainCriteria \cup
    {[cr EXCEPT !.gmailQuery = raw] : cr \in {NoCriteria, FullCriteria}, raw \in RawQueries}

\* the state after construction, but for what ran last
InitIdle ==
  /\ clients = <<>>
  /\ broken = {}
  /\ wsSession = [c \in Conns |-> InitSessionId]
  /\ sessions = [s \in SessIds |-> 0]
  /\ objs = [o \in ObjIds |-> FreeObj]
  /\ cleanupTimers = <<>>
  /\ profileContent = ""
  /\ emails = MsgIds
  /\ actionCache = <<>>
  /\ reqs = [r \in Reqs |-> FreeReq]
  /\ imapClient = 0
  /\ imapConns = <<>>
  /\ calls = [k \in Calls |-> IdleCall]
  /\ profileFile = ""
  /\ profileTimer = 0
  /\ profileReads = 0
  /\ cleanedUp = FALSE

\* searchEmails is called with criteria
InitQuery ==
  /\ \E cr \in QueryInputs : trace = <<Ev("criteria", 0, "given", cr)>>
  /\ InitIdle

\* searchEmails line 109: the search object of the call's criteria
BuildQuery ==
  /\ Len(trace) = 1
  /\ trace[1].ev = "criteria"
  /\ trace' = <<Ev("query", 0, "built",
                   [criteria |-> trace[1].val, query |-> BuildSearchQuery(trace[1].val)])>>
  /\ UNCHANGED <<clients, broken, wsSession, sessions, objs, cleanupTimers,
                 profileContent, emails, actionCache, reqs>>
  /\ UNCHANGED imapVars
  /\ UNCHANGED profVars

QueryNext == BuildQuery

\* ------------------------------------------------- the collaborator's messages
\* result.messages, by what the loop of lines 413-425 looks at: the type of a
\* message, whether its content is a string or an array of blocks, and the
\* texts of the string (none: the empty string) or of the text blocks, in order
Texts == 1..NumTexts
SdkMessages ==
  {[type |-> "user", kind |-> "string", texts |-> <<>>]}
    \cup {[type |-> "assistant", kind |-> "string", texts |-> t] :
            t \in {<<>>} \cup {<<x>> : x \in Texts}}
    \cup {[type |-> "assistant", kind |-> "blocks", texts |-> t] :
            t \in UNION {[1..n -> Texts] : n \in 0..MaxBlocks}}
MessageLists == UNION {[1..n -> SdkMessages] : n \in 0..MaxMessages}

\* one iteration of the loop (lines 414-424): a string content replaces what
\* has been collected, the text blocks of an array content are appended to it
CollectMessage(acc, msg) ==
  IF msg.type = "assistant" /\ (msg.kind = "blocks" \/ msg.texts # <<>>)
  THEN IF msg.kind = "string" THEN msg.texts ELSE acc \o msg.texts
  ELSE acc

\* lines 411-426: lastAssistantMessage after the loop over result.messages
RECURSIVE CollectFrom(_, _)
CollectFrom(acc, msgs) ==
  IF msgs = <<>> THEN acc ELSE CollectFrom(CollectMessage(acc, Head(msgs)), Tail(msgs))

LastAssistantMessage(msgs) == CollectFrom(<<>>, msgs)

\* querySingle has resolved with messages
InitText ==
  /\ \E msgs \in MessageLists : trace = <<Ev("messages", 0, "given", msgs)>>
  /\ InitIdle

\* lines 409-428: the text the JSON is extracted from and that is sent as rawResponse
ExtractText ==
  /\ Len(trace) = 1
  /\ trace[1].ev = "messages"
  /\ trace' = <<Ev("text", 0, "extracted",
                   [messages |-> trace[1].val, text |-> LastAssistantMessage(trace[1].val)])>>
  /\ UNCHANGED <<clients, broken, wsSession, sessions, objs, cleanupTimers,
                 profileContent, emails, actionCache, reqs>>
  /\ UNCHANGED imapVars
  /\ UNCHANGED profVars

TextNext == ExtractText

\* ------------------------------------------------------------ specifications
ConnNext ==
  \/ \E c \in Conns, f \in BOOLEAN : OnOpen(c, f)
  \/ \E c \in Conns : OnClose(c)
  \/ \E c \in Conns : BreakConn(c)

SessNext ==
  \/ \E c \in Conns, sid \in SessIds \cup {0}, n \in BOOLEAN : Chat(c, sid, n)
  \/ \E c \in Conns, sid \in SessIds : Subscribe(c, sid)
  \/ \E c \in Conns, sid \in SessIds : Unsubscribe(c, sid)
  \/ TimerFire

GenNext ==
  \/ \E c \in Conns, m \in MsgIds \cup {UnknownMsg}, h \in BOOLEAN : GenStart(c, m, h)
  \/ \E r \in Reqs, t \in ReplyTexts \cup {Rejected},
        d \in {"none", "update", "insert"}, f \in BOOLEAN : GenResume(r, t, d, f)
  \/ \E c \in Conns, f \in BOOLEAN : RequestInbox(c, f)
  \/ \E f \in BOOLEAN : PollTick(f)

MsgNext ==
  \/ \E c \in Conns, sid \in SessIds \cup {0}, n \in BOOLEAN : Chat(c, sid, n)
  \/ \E c \in Conns, sid \in SessIds : Subscribe(c, sid)
  \/ \E c \in Conns, sid \in SessIds : Unsubscribe(c, sid)
  \/ \E c \in Conns, k \in BadMessages : BadMessage(c, k)

BroadcastNext ==
  \/ \E p \in Profiles : FileChange(p)
  \/ ProfileTimerFire
  \/ \E ok \in BOOLEAN : ProfileRead(ok)
  \/ \E f \in BOOLEAN : PollTick(f)

\* the session registry: connections, session messages and cleanup timers
SpecSess == Init /\ [][ConnNext \/ SessNext]_vars

\* the action-generation pipeline and the readers of the record store
SpecGen == Init /\ [][ConnNext \/ GenNext]_vars

\* the remote mail client
SpecImap == Init /\ [][ImapNext]_vars

\* the search objects built from criteria and from raw queries
SpecQuery == InitQuery /\ [][QueryNext]_vars

\* the hub's timers around cleanup(): the poll, the profile watcher, the
\* session cleanup timers
StopNext ==
  \/ \E c \in Conns : OnOpen(c, FALSE)
  \/ \E c \in Conns : OnClose(c)
  \/ \E c \in Conns : Chat(c, 0, FALSE)
  \/ TimerFire
  \/ Cleanup

SpecStop == Init /\ [][StopNext \/ BroadcastNext]_vars

\* searchEmails calls with the limits 0 and 1 and without a limit
LimitNext == ImapSteps(1..MaxDetailCalls, {0, 1, NoLimit}, 1..(MaxUid - 1))

SpecLimit == Init /\ [][LimitNext]_vars

\* the text taken from the messages of the collaborator
SpecText == InitText /\ [][TextNext]_vars

\* the remote mail client under overlapping calls
SpecOverlap == Init /\ [][OverlapNext]_vars

\* the broadcasts of the hub: the poll and the profile watcher
SpecHub == Init /\ [][ConnNext \/ BroadcastNext]_vars

\* the inbound messages of connections, without the cleanup timers firing
SpecMsg == Init /\ [][ConnNext \/ MsgNext]_vars

\* the hub broadcasts with the interval timer of the poll, which setInterval
\* fires for as long as the process runs
SpecPoll ==
  /\ Init
  /\ [][ConnNext \/ BroadcastNext]_vars
  /\ WF_vars(\E f \in BOOLEAN : PollTick(f))

Next ==
  ConnNext \/ SessNext \/ MsgNext \/ GenNext \/ BroadcastNext \/ ImapNext \/ QueryNext
    \/ StopNext \/ TextNext

Spec == Init /\ [][Next]_vars

\* ------------------------------------------------------------------ claims
AllMsgs == MsgIds \cup {UnknownMsg}
TerminalTypes == {"actions_generated", "actions_error"}

\* the events of a trace that are sends of one of the kinds to connection c
SendsTo(tr, c, kinds) ==
  {i \in DOMAIN tr : tr[i].ev = "send" /\ tr[i].to = c /\ tr[i].typ \in kinds}

HasEvent(tr, kind) == \E i \in DOMAIN tr : tr[i].ev = kind

\* the state was reached by a run of handleGenerateActions after the collaborator settled
ResumeStep(tr) == Len(tr) > 0 /\ tr[1].ev = "resume"
StartStep(tr) == Len(tr) > 0 /\ tr[1].ev = "generate"

\* the actions_generated reply of a resume step whose collaborator call returned
ReplyOf(tr) == tr[CHOOSE i \in DOMAIN tr : tr[i].ev = "send" /\ tr[i].typ = "actions_generated"]

\* C1: in every reachable state the Action Cache holds at most one entry with
\* validity flag = true per message identifier, whatever the interleaving of
\* generate_actions requests.
C1_AtMostOneValidPerMessage ==
  \A m \in AllMsgs : Cardinality(ValidEntries(actionCache, m)) <= 1

\* two generations have written the same message: one entry invalidated, one valid
C1_Witness ==
  \E m \in AllMsgs :
    /\ Cardinality({i \in DOMAIN actionCache : actionCache[i].msg = m}) >= 2
    /\ Cardinality(ValidEntries(actionCache, m)) = 1

\* C2: the invalidate+insert pair is one atomic unit: a message that had a
\* valid entry before a handler ran is never shown with zero valid entries by
\* a snapshot read made after it, also when the insert fails after the
\* invalidate succeeded.
C2_WriteIsAtomicForReaders ==
  [][\A m \in MsgIds :
       ValidEntries(actionCache, m) # {} =>
         \A i \in DOMAIN trace' :
           trace'[i].ev = "snapshot" =>
             \A j \in DOMAIN trace'[i].val :
               trace'[i].val[j].id = m => trace'[i].val[j].actions # JsonNull]_vars

\* C7: every generate_actions request is acknowledged with actions_generating
\* before the store is read or the collaborator is invoked; no terminal status
\* is sent while the collaborator is pending; once the request ends, exactly
\* one terminal status (actions_generated or actions_error) has been sent, and
\* the requester never receives two.
C7_AckThenOneTerminal ==
  (StartStep(trace) \/ ResumeStep(trace)) =>
    LET c == trace[1].to
        term == SendsTo(trace, c, TerminalTypes)
        got == {i \in term : trace[i].res = "ok"}
        noThrow == \A i \in DOMAIN trace : trace[i].ev = "send" => trace[i].res # "throw"
    IN /\ Cardinality(got) <= 1
       /\ StartStep(trace) =>
            /\ trace[2].ev = "send" /\ trace[2].to = c /\ trace[2].typ = "actions_generating"
            /\ \A i \in DOMAIN trace : trace[i].ev \in {"dbread", "invoke"} => i > 2
            /\ HasEvent(trace, "invoke") => term = {}
            /\ (~HasEvent(trace, "invoke") /\ noThrow) => Cardinality(term) = 1
       /\ ResumeStep(trace) => (noThrow => Cardinality(term) = 1)
       /\ \A r \in Reqs : reqs[r].st = "pending" => ~(ResumeStep(trace) /\ trace[1].val = r)

\* a request whose collaborator call settled and whose requester received its terminal status
C7_Witness ==
  /\ ResumeStep(trace)
  /\ \E i \in SendsTo(trace, trace[1].to, TerminalTypes) : trace[i].res = "ok"

\* C8 (as claimed): every terminal status reply sent once the collaborator has
\* been invoked, actions_error included, is followed by a snapshot broadcast
\* to all live connections.
C8_EveryTerminalReplyThenBroadcast ==
  ResumeStep(trace) =>
    \A i \in SendsTo(trace, trace[1].to, TerminalTypes) :
      trace[i].res # "throw" =>
        \E j \in DOMAIN trace :
          /\ j > i
          /\ trace[j].ev = "snapshot"
          /\ \A k \in DOMAIN clients :
               \E n \in SendsTo(trace, clients[k], {"inbox_update"}) : n > j

\* C8 (amended): an actions_generated reply whose send returns is followed by
\* one snapshot read of the store as the write left it and by an inbox_update
\* with that snapshot to every live connection, in the order of the client
\* map; an actions_error reply is followed by no broadcast.
C8_SuccessReplyThenBroadcast ==
  ResumeStep(trace) =>
    /\ \A i \in SendsTo(trace, trace[1].to, {"actions_generated"}) :
         trace[i].res # "throw" =>
           /\ Len(trace) = i + 1 + Len(clients)
           /\ trace[i + 1].ev = "snapshot"
           /\ trace[i + 1].val \in {GetRecentEmails(emails, actionCache, FALSE), <<>>}
           /\ \A k \in DOMAIN clients :
                /\ trace[i + 1 + k].ev = "send"
                /\ trace[i + 1 + k].to = clients[k]
                /\ trace[i + 1 + k].typ = "inbox_update"
                /\ trace[i + 1 + k].val = trace[i + 1].val
    /\ \A i \in SendsTo(trace, trace[1].to, {"actions_error"}) :
         \A j \in DOMAIN trace : j > i => trace[j].ev # "snapshot"

\* a success reply followed by a broadcast that reaches two live connections
C8_Witness ==
  /\ ResumeStep(trace)
  /\ Len(clients) >= 2
  /\ \E i \in SendsTo(trace, trace[1].to, {"actions_generated"}) :
       /\ trace[i].res = "ok"
       /\ \A k \in DOMAIN clients : trace[i + 1 + k].res = "ok"

\* the write step of the resume step that led to the next state, if it had one
WriteFault(tr) ==
  IF HasEvent(tr, "dbwrite")
  THEN tr[CHOOSE i \in DOMAIN tr : tr[i].ev = "dbwrite"].typ
  ELSE "none"

NoJsonAnywhere(t) ==
  t \in ReplyTexts /\ t.fence \notin JsonVals /\ t.whole \notin JsonVals

\* C10: when the collaborator reply holds no parsable JSON, neither fenced nor
\* as a whole, the requester is sent actions_generated with actions = null and
\* the raw reply text and no actions_error, the Action Cache is unchanged, and
\* no fault leaves the handler unless that send itself throws.
C10_NoJsonIsAbsentNotError ==
  [][(ResumeStep(trace') /\ trace'[1].typ = "returned"
        /\ NoJsonAnywhere(ReplyOf(trace').val.raw)) =>
       /\ actionCache' = actionCache
       /\ ~HasEvent(trace', "dbwrite")
       /\ trace'[2] = ReplyOf(trace')
       /\ trace'[2].to = trace'[1].to
       /\ trace'[2].val.actions = JsonNull
       /\ trace'[2].res # "throw" =>
            /\ ~HasEvent(trace', "escape")
            /\ SendsTo(trace', trace'[1].to, {"actions_error", "error"}) = {}]_vars

\* a prose reply answered to a requester that received it, with a valid entry in the cache
C10_Witness ==
  /\ ResumeStep(trace)
  /\ trace[1].typ = "returned"
  /\ NoJsonAnywhere(ReplyOf(trace).val.raw)
  /\ ReplyOf(trace).res = "ok"
  /\ \E m \in AllMsgs : ValidEntries(actionCache, m) # {}

\* the state was reached by the firing of a cleanup timer
TimerStep(tr) == Len(tr) > 0 /\ tr[1].ev = "timer"

\* the sessions of the registry that hold connection c as a subscriber
SessionsOf(c) == {s \in SessIds : sessions[s] # 0 /\ c \in objs[sessions[s]].subs}

\* C4: after any sequence of chat, subscribe, unsubscribe and disconnect
\* events, every connection is in the subscriber set of at most one session.
C4_AtMostOneSessionPerConnection ==
  \A c \in Conns : Cardinality(SessionsOf(c)) <= 1

\* C5: a cleanup timer started before a re-subscription never removes the
\* session: a session is removed only when its subscriber set stayed empty
\* from the start of the timer to its firing.
C5_ResubscriptionCancelsCleanup ==
  TimerStep(trace) =>
    LET t == trace[1].val
    IN (t.before = t.obj /\ t.after = 0) => ~t.resub

\* C6: a timer started by the disconnect of a session's only subscriber, the
\* session re-subscribed before it fires and still subscribed when it fires:
\* afterwards the registry holds the same session object under that identifier.
C6_ResubscribedSessionSurvives ==
  TimerStep(trace) =>
    LET t == trace[1].val
    IN (t.last /\ t.resub /\ t.hadSubs) => t.after = t.obj

\* C3: in searchEmails a failing fetch or parse of some of the UIDs never aborts
\* the call: it returns, and the result holds exactly the records of the other UIDs.
C3_PartialSuccess ==
  \A k \in Calls :
    (calls[k].kind = "search" /\ calls[k].bad # {} /\ calls[k].pc \in {"done", "failed"}) =>
      /\ calls[k].pc = "done"
      /\ calls[k].results = SelectSeq(calls[k].uids, LAMBDA u : u \notin calls[k].bad)

\* the call has taken a connection from getClient and has not left searchEmails
InFlight(k) == calls[k].kind = "search" /\ calls[k].pc \in {"lock", "search", "fetch", "parse"}

\* C11: no two searchEmails calls that are in flight at the same time take the
\* folder lock, search or fetch on the same connection.
C11_NoSharedConnection ==
  \A j, k \in Calls :
    (j < k /\ InFlight(j) /\ InFlight(k)) => calls[j].cl # calls[k].cl

\* C12: under any interleaving of searchEmails and disconnect calls, every
\* live connection is the one the client references: a connection it opened
\* and no longer references has been logged out.
C12_AtMostOneLiveConnection ==
  \A n \in DOMAIN imapConns : imapConns[n].st = "open" => n = imapClient

\* C13: no search takes the folder lock, searches or fetches on a connection
\* that was created by a searchEmails call started before it (calls are
\* numbered in the order they start).
C13_FreshConnectionPerSearch ==
  \A k \in Calls :
    InFlight(k) => \A j \in Calls : j < k => calls[j].own # calls[k].cl

\* the call has been granted the folder lock
Acquired(k) ==
  \/ calls[k].pc \in {"search", "fetch", "parse", "done"}
  \/ calls[k].pc = "failed" /\ calls[k].err \in {"search", "fetch"}

\* C14: a folder lock acquired by searchEmails is held until the call leaves
\* and has been released exactly once when the call has returned or thrown,
\* whether it completed or the search, a fetch or a parse failed; a call that
\* never got the lock releases nothing.
C14_LockReleasedExactlyOnce ==
  \A k \in Calls :
    calls[k].kind = "search" =>
      /\ calls[k].pc \in {"search", "fetch", "parse"} =>
           calls[k].released = 0 /\ imapConns[calls[k].cl].lock = k
      /\ (calls[k].pc \in {"done", "failed"} /\ Acquired(k)) =>
           /\ calls[k].released = 1
           /\ imapConns[calls[k].cl].lock # k
      /\ ~Acquired(k) => calls[k].released = 0

\* one call failed on a fetch after a parse failure, another completed: both released their lock
C14_Witness ==
  \E j, k \in Calls :
    /\ calls[j].pc = "failed" /\ calls[j].err = "fetch" /\ Cardinality(calls[j].bad) >= 2
    /\ calls[k].pc = "done" /\ calls[k].results # <<>>
    /\ calls[j].released = 1 /\ calls[k].released = 1

\* s is strictly descending
StrictlyDescending(s) == \A i, j \in DOMAIN s : i < j => s[i] > s[j]

C16_BroadcastReachesEveryConnection ==
  \A i \in DOMAIN trace :
    (trace[i].ev \in {"snapshot", "profile"} /\ trace[i].to = 0) =>
      /\ Len(trace) = i + Len(clients)
      /\ \A k \in DOMAIN clients :
           /\ trace[i + k].ev = "send"
           /\ trace[i + k].to = clients[k]
           /\ trace[i + k].typ = (IF trace[i].ev = "snapshot" THEN "inbox_update"
                                  ELSE "profile_update")
           /\ trace[i + k].val = trace[i].val

\* a profile broadcast whose first send throws and whose second send is delivered
C16_Witness ==
  /\ Len(trace) = 3
  /\ trace[1].ev = "profile"
  /\ trace[2].res = "throw"
  /\ trace[3].res = "ok"

\* C17: a connection whose disconnect has been handled is not in the
\* live-connection set and is in the subscriber set of no session of the registry.
C17_DisconnectedConnectionIsGone ==
  \A c \in Conns :
    c \notin Range(clients) =>
      \A s \in SessIds : sessions[s] # 0 => c \notin objs[sessions[s]].subs

\* the state was reached by onMessage for a message it has no case for
BadStep(tr) == Len(tr) > 0 /\ tr[1].ev = "message"

\* C18: an inbound message that is not valid JSON or whose kind is unknown
\* is answered with an error message to the sender, exactly one when the send
\* returns and never two delivered; the live-connection set, the session
\* registry and all session memberships are unchanged.
C18_BadMessageGetsOneError ==
  [][BadStep(trace') =>
       LET c == trace'[1].to
           errs == SendsTo(trace', c, {"error"})
           noThrow == \A i \in DOMAIN trace' : trace'[i].ev = "send" => trace'[i].res # "throw"
       IN /\ errs # {}
          /\ noThrow => Cardinality(errs) = 1
          /\ Cardinality({i \in errs : trace'[i].res = "ok"}) <= 1
          /\ \A i \in DOMAIN trace' : trace'[i].ev = "send" => i \in errs
          /\ c \in Range(clients')
          /\ clients' = clients
          /\ sessions' = sessions
          /\ objs' = objs
          /\ wsSession' = wsSession
          /\ cleanupTimers' = cleanupTimers]_vars

\* a subscribed connection sent text that is not JSON and received the error
C18_Witness ==
  /\ BadStep(trace)
  /\ trace[1].typ = "notjson"
  /\ SessionsOf(trace[1].to) # {}
  /\ \E i \in SendsTo(trace, trace[1].to, {"error"}) : trace[i].res = "ok"

\* C19: every subscribe and every unsubscribe message is answered: with the
\* acknowledgement when the named session is in the registry, with an error
\* when it is not.
C19_SubscribeUnsubscribeAlwaysReply ==
  (Len(trace) > 0 /\ trace[1].ev \in {"subscribe", "unsubscribe"}) =>
    LET c == trace[1].to
    IN /\ trace[1].typ = "found" =>
            /\ Len(trace) >= 2
            /\ trace[2].ev = "send" /\ trace[2].to = c
            /\ trace[2].typ = (IF trace[1].ev = "subscribe" THEN "subscribed" ELSE "unsubscribed")
       /\ trace[1].typ = "unknown" =>
            /\ Len(trace) >= 2
            /\ trace[2].ev = "send" /\ trace[2].to = c /\ trace[2].typ = "error"

\* C20: every inbox snapshot sent holds each message identifier at most once,
\* and a payload attached to a message is the payload of an Action Cache
\* entry of that message that is valid when the snapshot is computed.
C20_SnapshotShowsOnlyValidPayloads ==
  \A i \in DOMAIN trace :
    (trace[i].ev = "send" /\ trace[i].typ = "inbox_update") =>
      LET snap == trace[i].val
      IN /\ \A a, b \in DOMAIN snap : a # b => snap[a].id # snap[b].id
         /\ \A a \in DOMAIN snap :
              /\ snap[a].id \in emails
              /\ snap[a].actions # JsonNull =>
                   \E e \in DOMAIN actionCache :
                     /\ actionCache[e].msg = snap[a].id
                     /\ actionCache[e].valid
                     /\ JsonParse(actionCache[e].json) = snap[a].actions

\* a snapshot was sent that shows the valid payload of a message whose
\* earlier, different payload has been invalidated
C20_Witness ==
  \E i \in DOMAIN trace :
    /\ trace[i].ev = "send" /\ trace[i].typ = "inbox_update" /\ trace[i].res = "ok"
    /\ \E a \in DOMAIN trace[i].val, e \in DOMAIN actionCache :
         /\ trace[i].val[a].actions # JsonNull
         /\ actionCache[e].msg = trace[i].val[a].id
         /\ ~actionCache[e].valid
         /\ JsonParse(actionCache[e].json) # trace[i].val[a].actions

\* C21: the Action Cache is append-only: no step removes an entry or changes
\* the message or payload of one; a step flips validity flags only from true
\* to false and only for the message it writes, and appends at most one entry,
\* which is valid; so the entries of a message never become fewer.
C21_CacheIsAppendOnly ==
  [][/\ Len(actionCache') \in {Len(actionCache), Len(actionCache) + 1}
     /\ \A i \in DOMAIN actionCache :
          /\ actionCache'[i].msg = actionCache[i].msg
          /\ actionCache'[i].json = actionCache[i].json
          /\ actionCache'[i].valid => actionCache[i].valid
     /\ actionCache' # actionCache =>
          /\ ResumeStep(trace') /\ HasEvent(trace', "dbwrite")
          /\ LET m == trace'[CHOOSE i \in DOMAIN trace' : trace'[i].ev = "dbwrite"].val
             IN /\ \A i \in DOMAIN actionCache :
                     actionCache[i].msg # m => actionCache'[i] = actionCache[i]
                /\ Len(actionCache') > Len(actionCache) =>
                     /\ actionCache'[Len(actionCache')].msg = m
                     /\ actionCache'[Len(actionCache')].valid
                     /\ \A i \in DOMAIN actionCache :
                          actionCache[i].msg = m => ~actionCache'[i].valid]_vars

\* a generation wrote a message a second time: the first entry is still there
\* with its payload, now invalid, after the new valid entry was appended
C21_Witness ==
  /\ ResumeStep(trace)
  /\ WriteFault(trace) = "none" /\ HasEvent(trace, "dbwrite")
  /\ Len(actionCache) = 2
  /\ actionCache[1].msg = actionCache[2].msg
  /\ actionCache[1].json # actionCache[2].json
  /\ ~actionCache[1].valid /\ actionCache[2].valid

\* the state was reached by a broadcast of the poll: startup or an interval tick
PollStep(tr) == Len(tr) > 0 /\ tr[1].ev = "snapshot" /\ tr[1].to = 0

\* the poll of this state attempted an inbox_update on connection c
PollReached(c) == PollStep(trace) /\ SendsTo(trace, c, {"inbox_update"}) # {}

\* C22: the hub starts with one snapshot broadcast; every broadcast of the
\* poll sends one inbox_update with its snapshot to every connection of the
\* live-connection set; a connection that stays connected is sent
\* inbox_update messages by the poll again and again.
C22_PollBroadcastsForever ==
  /\ PollStep(trace)
  /\ [](PollStep(trace) =>
          /\ Len(trace) = 1 + Len(clients)
          /\ \A k \in DOMAIN clients :
               /\ trace[1 + k].ev = "send" /\ trace[1 + k].typ = "inbox_update"
               /\ trace[1 + k].to = clients[k]
               /\ trace[1 + k].val = trace[1].val)
  /\ \A c \in Conns : <>[](c \in Range(clients)) => []<>PollReached(c)

\* a tick of the poll delivered the snapshot to two live connections
C22_Witness ==
  /\ PollStep(trace)
  /\ Len(clients) = 2
  /\ \A k \in DOMAIN clients : trace[1 + k].res = "ok" /\ trace[1 + k].val # <<>>

\* what one step may do to the debounce timer and the re-reads
DebounceStep ==
  /\ (Len(trace') > 0 /\ trace'[1].ev = "change") =>
       /\ profileTimer' = 1
       /\ profileReads' = profileReads
       /\ profileContent' = profileContent
       /\ Len(trace') = 1
  /\ profileReads' > profileReads =>
       /\ profileTimer = 1 /\ profileTimer' = 0
       /\ profileReads' = profileReads + 1
       /\ trace' = <<>>
  /\ HasEvent(trace', "profile") =>
       /\ profileReads' = profileReads - 1
       /\ Cardinality({i \in DOMAIN trace' : trace'[i].ev = "profile"}) = 1

\* C23: the debounce timer is reset, not stacked: at most one timer is
\* pending; a change notification leaves exactly one timer pending and by
\* itself re-reads and broadcasts nothing; a re-read starts only when the
\* pending timer elapses, one re-read per elapsed timer, and a re-read
\* broadcasts at most once. So a burst of notifications, each within the
\* settling window of the previous one, ends in one re-read after the last.
C23_DebounceResetsNotStacks ==
  [](profileTimer <= 1) /\ [][DebounceStep]_vars

\* a notification arrived while the timer of the previous one was pending
C23_Witness ==
  /\ Len(trace) > 0
  /\ trace[1].ev = "change" /\ trace[1].typ = "reset"
  /\ profileTimer = 1

\* what one step may do to the cached profile content and its broadcasts
ProfileBroadcastStep ==
  /\ HasEvent(trace', "profile") =>
       LET sent == trace'[CHOOSE i \in DOMAIN trace' : trace'[i].ev = "profile"].val
       IN /\ sent # profileContent
          /\ profileContent' = sent
          /\ \A i \in DOMAIN trace' : trace'[i].typ = "profile_update" => trace'[i].val = sent
  /\ ~HasEvent(trace', "profile") =>
       /\ profileContent' = profileContent
       /\ \A i \in DOMAIN trace' :
            (trace'[i].typ = "profile_update" /\ trace'[i].ev = "send") =>
              (trace'[1].typ = "connected" /\ trace'[i].val = profileContent)
  /\ (Len(trace') > 0 /\ trace'[1].ev = "reread" /\ trace'[1].typ = "same") =>
       trace'[1].val = profileContent

\* C24: a profile_update broadcast is sent only when the re-read content
\* differs from the cached content, which it then replaces; the cached
\* content changes in no other step, so no two consecutive broadcasts carry
\* the same content, and a re-read that finds the cached content broadcasts
\* nothing.
C24_BroadcastOnlyWhenContentDiffers ==
  [][ProfileBroadcastStep]_vars

\* after an earlier broadcast, a re-read found the cached content and broadcast nothing
C24_Witness ==
  /\ Len(trace) = 1
  /\ trace[1].ev = "reread" /\ trace[1].typ = "same"
  /\ profileContent # ""

\* the sends of a trace addressed to connection c, in order
SendsOf(tr, c) == SelectSeq(tr, LAMBDA e : e.ev = "send" /\ e.to = c)

\* what a step sends to a connection that was not registered before it
ConnectStep ==
  \A c \in Conns :
    LET got == SendsOf(trace', c)
        delivered == \E i \in DOMAIN got : got[i].res = "ok"
    IN /\ (c \notin Range(clients) /\ delivered) => c \in Range(clients')
       /\ (c \notin Range(clients) /\ c \in Range(clients')) =>
            /\ Len(got) = IF profileContent # "" THEN 3 ELSE 2
            /\ got[1].typ = "connected"
            /\ trace'[1] = got[1]
            /\ profileContent # "" =>
                 (got[2].typ = "profile_update" /\ got[2].val = profileContent)
            /\ got[Len(got)].typ = "inbox_update"
            /\ \E f \in BOOLEAN : got[Len(got)].val = GetRecentEmails(emails, actionCache, f)
            /\ \A i \in DOMAIN got : got[i].res = "ok"

\* C25: the step that registers a connection sends to it the connected
\* message, then the cached profile content only if it is non-empty, then the
\* current snapshot, and no step delivers anything to a connection that is not
\* registered, so the connected message is the first one a connection receives.
C25_WelcomeThenProfileThenSnapshot ==
  [][ConnectStep]_vars

\* a connection opened while the cached profile content is non-empty
C25_Witness ==
  /\ Len(trace) = 4
  /\ trace[1].typ = "connected"
  /\ trace[2].typ = "profile_update" /\ trace[2].val = profileContent
  /\ trace[4].typ = "inbox_update"
  /\ Len(clients) = 2

\* a run of handleGenerateActions that looked the message up and did not find it
UnresolvedStep ==
  (/\ StartStep(trace')
   /\ \E i \in DOMAIN trace' : trace'[i].ev = "dbread" /\ trace'[i].val \notin emails) =>
     LET c == trace'[1].to
         r == trace'[1].val
     IN /\ ~HasEvent(trace', "invoke")
        /\ Cardinality(SendsTo(trace', c, {"actions_error"})) = 1
        /\ SendsTo(trace', c, {"actions_generated"}) = {}
        /\ trace'[Len(trace')].typ = "actions_error"
        /\ actionCache' = actionCache
        /\ reqs'[r].st # "pending"

\* C26: a generate_actions request without content whose message identifier is
\* in no row of the emails table gets one actions_error reply and ends there:
\* querySingle is not invoked, the Action Cache is unchanged, and the request
\* is not left pending, so no actions_generated reply can follow.
C26_UnresolvableRepliesErrorAndStops ==
  [][UnresolvedStep]_vars

\* a request for an unknown message was answered with actions_error
C26_Witness ==
  /\ StartStep(trace)
  /\ Len(trace) = 4
  /\ trace[3].ev = "dbread" /\ trace[3].val = UnknownMsg
  /\ trace[4].typ = "actions_error" /\ trace[4].res = "ok"
  /\ \A r \in Reqs : reqs[r].st # "pending"

\* C27: when the UPDATE or the INSERT of the store step throws, the handler
\* still sends actions_generated with the payload extracted from the reply it
\* just got and no actions_error, and when that send returns the snapshot
\* read and an inbox_update to every live connection follow it.
C27_WriteFailureStillReplies ==
  (ResumeStep(trace) /\ WriteFault(trace) \in {"update", "insert"}) =>
    LET c == trace[1].to
        sent == SendsTo(trace, c, {"actions_generated"})
    IN /\ Cardinality(sent) = 1
       /\ \A i \in sent :
            /\ trace[i].val.actions = ExtractJson(trace[i].val.raw)
            /\ ShouldStore(trace[i].val.actions)
            /\ trace[i].res # "throw" =>
                 /\ SendsTo(trace, c, {"actions_error"}) = {}
                 /\ trace[i + 1].ev = "snapshot"
                 /\ \A k \in DOMAIN clients :
                      \E n \in SendsTo(trace, clients[k], {"inbox_update"}) : n > i + 1

\* the INSERT threw, the requester got actions_generated and a second connection the broadcast
C27_Witness ==
  /\ ResumeStep(trace)
  /\ WriteFault(trace) = "insert"
  /\ \E i \in SendsTo(trace, trace[1].to, {"actions_generated"}) : trace[i].res = "ok"
  /\ Len(clients) = 2
  /\ \E n \in SendsTo(trace, clients[2], {"inbox_update"}) : trace[n].res = "ok"

\* C28: in every state with a generate_actions request suspended at the
\* await of querySingle, the poll tick, a connect, and a subscribe,
\* request_inbox or further generate_actions message of any open connection
\* can each run as a whole handler without the pending request settling first
\* (a further generate_actions as long as the modelled request slots last).
C28_PendingRequestLeavesHubRunning ==
  (\E r \in Reqs : reqs[r].st = "pending") =>
    /\ \A f \in BOOLEAN : ENABLED PollTick(f)
    /\ \A c \in Conns : Unreferenced(c) => \E d \in Conns : ENABLED OnOpen(d, FALSE)
    /\ \A c \in Range(clients) :
         /\ ENABLED RequestInbox(c, FALSE)
         /\ \A sid \in SessIds : ENABLED Subscribe(c, sid)
         /\ (\E r \in Reqs : reqs[r].st = "free") =>
              \A m \in AllMsgs, h \in BOOLEAN : ENABLED GenStart(c, m, h)

\* while request 1 is pending, a second generate_actions request of another
\* connection was taken and suspended in its turn
C28_Witness ==
  /\ StartStep(trace)
  /\ trace[1].val = 2
  /\ HasEvent(trace, "invoke")
  /\ reqs[1].st = "pending" /\ reqs[2].st = "pending"
  /\ reqs[1].ws # reqs[2].ws

\* a disconnect or an unsubscribe message that takes the last subscriber of a
\* registered session starts a cleanup timer for that session
EmptiedStep ==
  \A s \in SessIds :
    (/\ Len(trace') > 0
     /\ trace'[1].ev \in {"close", "unsubscribe"}
     /\ sessions[s] # 0
     /\ sessions'[s] = sessions[s]
     /\ HasSubscribers(objs, sessions[s])
     /\ ~HasSubscribers(objs', sessions[s])) =>
       \E i \in DOMAIN cleanupTimers' :
         /\ i > Len(cleanupTimers)
         /\ cleanupTimers'[i].id = s

\* C29: whenever the subscriber set of a session becomes empty, through a
\* disconnect or through an unsubscribe message, that step starts a
\* grace-period cleanup timer for the session.
C29_EmptiedSessionGetsCleanupTimer ==
  [][EmptiedStep]_vars

\* the result the fixed order of extractors gives for reply t: the fenced block
\* when it parses, else the whole reply when it parses, else absent
FirstSuccess(t) ==
  IF t.fence \in JsonVals THEN t.fence
  ELSE IF t.whole \in JsonVals THEN t.whole
  ELSE JsonNull

FirstTruthy(t) ==
  IF t.fence \in JsonVals /\ Truthy(t.fence) THEN t.fence
  ELSE IF t.whole \in JsonVals THEN t.whole
  ELSE IF t.fence \in JsonVals THEN t.fence
  ELSE JsonNull

StandardBuilt ==
  Len(trace) = 1 /\ trace[1].ev = "query" /\ trace[1].val.criteria.gmailQuery = <<>>

\* the state was reached by building the search object of criteria with a raw query
RawBuilt ==
  Len(trace) = 1 /\ trace[1].ev = "query" /\ trace[1].val.criteria.gmailQuery # <<>>

\* the messages a search can meet, by what the criteria look at
Mails == [from : Addrs, to : Addrs, subject : {1, 2}, date : Dates, unread : BOOLEAN]

\* what a search object asks of a message: every key set must hold, and the
\* or key holds when one of its terms does
Matches(q, mail) ==
  /\ q.from # 0 => mail.from = q.from
  /\ q.to # 0 => mail.to = q.to
  /\ q.hasOr => \E i \in DOMAIN q.or :
                  IF q.or[i].field = "from" THEN mail.from = q.or[i].addr
                  ELSE mail.to = q.or[i].addr
  /\ q.subject # 0 => mail.subject = q.subject
  /\ q.since # 0 => mail.date >= q.since
  /\ q.before # 0 => mail.date < q.before
  /\ q.unseen => mail.unread

\* what the criteria ask of a message: every criterion present must hold, a
\* from or to criterion by one of its values
Satisfies(cr, mail) ==
  /\ Present(cr.from) => mail.from \in Range(cr.from.vals)
  /\ Present(cr.to) => mail.to \in Range(cr.to.vals)
  /\ cr.subject # 0 => mail.subject = cr.subject
  /\ cr.start # 0 => mail.date >= cr.start
  /\ cr.end # 0 => mail.date < cr.end
  /\ cr.isUnread => mail.unread

\* C31: without a raw query the search object built from the criteria matches
\* exactly the messages that satisfy every criterion present, the from values
\* taken as alternatives, the to values taken as alternatives, and the two
\* groups, the subject, the date range and the unread flag all required
\* together; criteria with nothing present give { all: true }.
C31_QueryConjoinsCriteria ==
  StandardBuilt =>
    LET cr == trace[1].val.criteria
        q == trace[1].val.query
    IN /\ \A mail \in Mails : Matches(q, mail) <=> Satisfies(cr, mail)
       /\ q.all <=> cr = NoCriteria

\* the search object that takes from each recognized word of the raw query
\* its own field and nothing from any other word
TokenwiseQuery(raw) ==
  LET f == FirstToken(raw, {"from"}, {"-"})
      t == FirstToken(raw, {"to"}, {"-"})
      s == FirstToken(raw, {"subject"}, {"quoted", "bare"})
      n == FirstToken(raw, {"newer_than", "after"}, {"d", "m", "y"})
      q == [EmptyQuery EXCEPT
              !.from = IF f = 0 THEN 0 ELSE raw[f].a,
              !.to = IF t = 0 THEN 0 ELSE raw[t].a,
              !.subject = IF s = 0 THEN <<>> ELSE <<raw[s]>>,
              !.since = IF n = 0 THEN <<>> ELSE <<raw[n].a, raw[n].u>>]
  IN IF f = 0 /\ t = 0 /\ s = 0 /\ n = 0 THEN [q EXCEPT !.all = TRUE] ELSE q

\* C32: with a raw query the search object is determined by the raw query
\* alone, whatever the other criteria: each from:, to:, subject: and
\* newer_than:/after: word with a d, m or y unit gives its field its own
\* value, every other word gives nothing, and a raw query without a
\* recognized word gives { all: true }.
C32_RawQueryTokensGiveTheirFields ==
  RawBuilt => trace[1].val.query = TokenwiseQuery(trace[1].val.criteria.gmailQuery)

\* C33: no cleanup timer removes from the registry a session that has a
\* subscriber when the timer fires, also not a timer that was started for an
\* earlier session object registered under the same identifier.
C33_SubscribedSessionNeverRemoved ==
  TimerStep(trace) =>
    LET t == trace[1].val
    IN (t.before # 0 /\ t.subsBefore # {}) => t.after = t.before

\* the connection call j is working on: the one it awaits the connect of, or
\* the one getClient returned to it
ConnOf(j) == IF calls[j].pc = "connect" THEN calls[j].own ELSE calls[j].cl

\* the start of a searchEmails call leaves the connections of the calls in flight as they are
StartSparesInFlight ==
  \A k \in Calls :
    (calls[k].pc = "idle" /\ calls'[k].kind = "search") =>
      \A j \in Calls :
        (calls[j].kind = "search" /\ (InFlight(j) \/ calls[j].pc = "connect")) =>
          imapConns'[ConnOf(j)].st = imapConns[ConnOf(j)].st

\* C34: the start of a searchEmails call never closes a connection that
\* another searchEmails call is connecting, holds the folder lock of, or is
\* searching or fetching on.
C34_StartNeverBreaksInFlightSearch ==
  [][StartSparesInFlight]_vars

\* a run of handleGenerateActions whose store step ran both statements
CleanWriteStep(tr) ==
  /\ ResumeStep(tr)
  /\ \E i \in DOMAIN tr : tr[i].ev = "dbwrite" /\ tr[i].typ = "none"

\* what the Action Cache holds after a store step without fault
WriteLeavesOneValid ==
  CleanWriteStep(trace') =>
    LET m == trace'[CHOOSE i \in DOMAIN trace' : trace'[i].ev = "dbwrite"].val
        sent == ReplyOf(trace').val.actions
    IN /\ Len(actionCache') = Len(actionCache) + 1
       /\ ValidEntries(actionCache', m) = {Len(actionCache')}
       /\ JsonParse(actionCache'[Len(actionCache')].json) = sent
       /\ \A i \in DOMAIN actionCache :
            /\ actionCache'[i].msg = actionCache[i].msg
            /\ actionCache'[i].json = actionCache[i].json

\* C35: after a store step that ran without fault the Action Cache holds
\* exactly one valid entry for the message, the entry this request has just
\* appended, and its payload is the payload of this request's
\* actions_generated reply; every earlier entry of the message, whichever
\* request wrote it, is invalid, so among overlapping generations the last
\* write is the valid one.
C35_LastWriteIsTheValidEntry ==
  [][WriteLeavesOneValid]_vars

\* request 1 started first and wrote last: its entry is valid, the entry of request 2 is not
C35_Witness ==
  /\ CleanWriteStep(trace)
  /\ trace[1].val = 1
  /\ Len(actionCache) = 2
  /\ ~actionCache[1].valid /\ actionCache[2].valid
  /\ actionCache[1].json # actionCache[2].json
  /\ JsonParse(actionCache[2].json) = ReplyOf(trace).val.actions

\* the subscribers of the session registered under sid, when c is one of them
SessionsOfConn(c, sid) ==
  IF sessions[sid] # 0 /\ c \in objs[sessions[sid]].subs THEN objs[sessions[sid]].subs ELSE {}

\* an unsubscribe message of connection c that names a registered or unknown
\* session other than the one c is recorded in leaves c where it is
ForeignUnsubscribeStep ==
  (/\ Len(trace') > 0
   /\ trace'[1].ev = "unsubscribe"
   /\ wsSession[trace'[1].to] \in SessIds
   /\ trace'[1].to \in SessionsOfConn(trace'[1].to, wsSession[trace'[1].to])
   /\ trace'[1].val # wsSession[trace'[1].to]) =>
    LET c == trace'[1].to
    IN /\ wsSession'[c] = wsSession[c]
       /\ \A o \in ObjIds : (c \in objs'[o].subs) <=> (c \in objs[o].subs)

\* C36: an unsubscribe message that names a session other than the sender's
\* current one leaves the sender in the subscriber set of its current session
\* and leaves its recorded session identifier unchanged.
C36_ForeignUnsubscribeChangesNothing ==
  [][ForeignUnsubscribeStep]_vars

\* a run of handleGenerateActions whose actions_generated reply did not reach
\* the requester
FailedReplyStep ==
  (/\ ResumeStep(trace')
   /\ trace'[1].typ = "returned"
   /\ ReplyOf(trace').res # "ok") =>
     LET c == trace'[1].to
         i == CHOOSE n \in DOMAIN trace' : trace'[n] = ReplyOf(trace')
     IN /\ CleanWriteStep(trace') =>
             ValidEntries(actionCache', reqs[trace'[1].val].msg) = {Len(actionCache')}
        /\ \E j \in DOMAIN trace' : j > i /\ trace'[j].ev = "snapshot"
        /\ \A k \in DOMAIN clients' :
             clients'[k] # c =>
               \E n \in SendsTo(trace', clients'[k], {"inbox_update"}) : n > i
        /\ ~HasEvent(trace', "escape")

\* C37: when the actions_generated reply cannot be sent to the requester, the
\* entry the store step wrote stays in the Action Cache, the snapshot is
\* still read and sent as inbox_update to every other live connection, and no
\* error leaves onMessage.
C37_FailedReplyStillBroadcasts ==
  [][FailedReplyStep]_vars

\* after cleanup() no step is a broadcast of the poll, a profile broadcast or
\* the firing of a session cleanup timer
QuietAfterCleanup ==
  cleanedUp =>
    /\ ~PollStep(trace')
    /\ ~HasEvent(trace', "profile")
    /\ ~TimerStep(trace')

\* C38: once cleanup() has run, no interval tick of the poll broadcasts a
\* snapshot, no debounced profile_update is broadcast and no session cleanup
\* timer acts on the registry.
C38_NoTimerActivityAfterCleanup ==
  [][QuietAfterCleanup]_vars

\* C39: a searchEmails call that was given a limit, the limit 0 included,
\* fetches no more messages than the limit and returns no more than the limit.
C39_NeverMoreThanLimit ==
  \A k \in Calls :
    (calls[k].kind = "search" /\ calls[k].limit \in Limits) =>
      /\ Len(calls[k].uids) <= calls[k].limit
      /\ Len(calls[k].results) <= calls[k].limit

\* the texts of the last assistant message of msgs, none when there is none
RECURSIVE FinalAssistantText(_)
FinalAssistantText(msgs) ==
  IF msgs = <<>> THEN <<>>
  ELSE IF msgs[Len(msgs)].type = "assistant" THEN msgs[Len(msgs)].texts
  ELSE FinalAssistantText(SubSeq(msgs, 1, Len(msgs) - 1))

\* C40: the text the JSON is extracted from is the content of the final
\* assistant message alone, its string or the texts of its blocks, whatever
\* assistant messages came before it.
C40_OnlyFinalAssistantMessage ==
  (Len(trace) = 1 /\ trace[1].ev = "text") =>
    trace[1].val.text = FinalAssistantText(trace[1].val.messages)

====
